---- MODULE Spec2Model ----
(***************************************************************************)
(* Model of core/AsynchronousTemporalQueue.go: the channel registry, the   *)
(* cross-channel merge (pop/head), the channel lifecycle with its removal  *)
(* goroutine, and the Empty query.                                         *)
(*                                                                         *)
(* A channel item is a heap object (queue, _close, _wg) with an identity:  *)
(* the registry maps a name to an item id, and a removal goroutine keeps   *)
(* the item it was started for.                                            *)
(***************************************************************************)
EXTENDS Integers, Sequences, FiniteSets, TLC

\* ---------------------------------------------------------------- bounds
MaxPush == 2      \* Push calls in one behaviour
MaxTs == 2        \* caller-supplied timestamps are 1..MaxTs
MaxTasks == 1     \* removal goroutines alive at the same time
MaxSamplers == 1  \* sampling goroutines alive at the same time
MaxWeight == 1    \* StartSample is called with channel weights in 0..MaxWeight
Second == 2       \* clock ticks in one second
WidePush == 4     \* Push calls in one behaviour of the three-channel specification
WideTs == 3       \* and their timestamps are the last WideTs clock readings
MaxClosers == 2   \* RecreateSpec: removal goroutines alive at the same time
MaxInFlight == 1  \* RaceSpec: Push calls in progress at the same time
MaxPops == 2      \* PopRaceSpec: Pop calls in progress at the same time
MaxRestart == 2   \* RestartSpec: sampling goroutines alive at the same time
MaxCreators == 2  \* CreateRaceSpec: CreateChannel calls between their Load and Store
WinPush == 3      \* WindowSpec: Push calls
WinTs == 3        \* WindowSpec: largest timestamp, and the last clock value
OrdPush == 4      \* ConsumerSpec: Push calls
OrdTs == 3        \* ConsumerSpec: largest timestamp, and the last clock value

\* The channel names of the model. "" is the zero value of a Go string.
Names == {"", "a", "b"}
\* The names the callers of the registry specification use.
Keys == {"", "a"}
\* The names the callers of the sampling specification use.
SampleKeys == {"a"}
\* the channels of the specifications with no channel named ""
WinKeys == {"a", "b"}
\* The sampling rates: from one window a second to one window a tick.
Rates == 1..Second
Weights == 0..MaxWeight
Timestamps == 1..MaxTs
\* The wall clock (time.Now().UnixNano()) starts before the largest
\* timestamp and may pass it.
Now0 == MaxTs - 1
MaxNow == MaxTs
\* The objects allocated for one name are told apart by a slot number: one
\* can be the registry entry and each other is held by a removal goroutine.
Slots == 1..(1 + MaxTasks)
NoItem == 0       \* channelMap.Load(key) reports !ok
NoValue == 0      \* key absent from a map[string]any

VARIABLES
    channelMap,     \* q.channelMap: name -> slot of its item, NoItem when absent
    items,          \* the asynchronousTemporalQueueItem objects: name -> slot -> item
    rm,             \* removal goroutines alive: name -> slot of their item -> how many
    sampleMode,     \* q.sampleMode
    sampleWeights,  \* q.sampleWeights: a map from names to weights
    durationWindow, \* q.durationWindow
    curNTP,         \* q.curNTP: the start of the current window
    item_buffer,    \* q.item_buffer: the snapshots of the current window
    out,            \* q.out.queue: the window results, a queue of snapshots
    samplers,       \* the taskSample goroutines alive, each with its locals
    fault,          \* a goroutine panicked: the process is gone
    now,            \* the wall clock
    pushed,         \* number of Push calls so far
    op,             \* the call or background step that ran last
    arg,            \* its channel name, "" when it has none
    ret,            \* what it returned: [values, NTP, ok]
    popRun,         \* history: the timestamps of the successful Pops since the
                    \* last push / create / close / change of mode
    closedNames,    \* history: names c with a CloseChannel(c) returned and no
                    \* channel c created since
    afterEmpty,     \* history: the last call was a Pop and the call before it
                    \* an Empty() that returned false
    popping,        \* the Pop calls run statement by statement that have not
                    \* returned: the locals of q.pop() after its Range
    creating        \* the CreateChannel calls run statement by statement that
                    \* found no entry and have not stored theirs: name -> how many

chanVars == <<channelMap, items, rm>>
sampVars == <<sampleMode, sampleWeights, durationWindow, curNTP, item_buffer,
              out, samplers, fault>>
histVars == <<popRun, closedNames, afterEmpty>>
vars == <<channelMap, items, rm, sampleMode, sampleWeights, durationWindow,
          curNTP, item_buffer, out, samplers, fault, now, pushed, op, arg, ret,
          popRun, closedNames, afterEmpty, popping, creating>>

\* ------------------------------------------------- ordered channel buffer
\* PriorityQueue[any, int64], a min-queue keyed by timestamp: a sequence of
\* [v, ts] in ascending ts order.
Sorted(q) == \A i \in 1..(Len(q) - 1) : q[i].ts <= q[i + 1].ts

InsertAt(q, p, e) == SubSeq(q, 1, p) \o <<e>> \o SubSeq(q, p + 1, Len(q))

\* queue.Push(value, ts): the order among equal timestamps is left open.
QPushSet(q, v, ts) ==
    {InsertAt(q, p, [v |-> v, ts |-> ts]) : p \in
        {p \in 0..Len(q) : Sorted(InsertAt(q, p, [v |-> v, ts |-> ts]))}}

QEmpty(q) == Len(q) = 0

\* queue.Head() -> (value, ts, ok)
QHead(q) ==
    IF Len(q) = 0 THEN [value |-> NoValue, ts |-> 0, ok |-> FALSE]
    ELSE [value |-> q[1].v, ts |-> q[1].ts, ok |-> TRUE]

\* the queue left by queue.Pop()
QPop(q) == IF Len(q) = 0 THEN q ELSE Tail(q)

\* seq with its i-th element taken out
Without(seq, i) == SubSeq(seq, 1, i - 1) \o SubSeq(seq, i + 1, Len(seq))

\* ---------------------------------------------------------- channel item
\* queue, _close, _wg (its counter), and the Push calls that hold a pointer
\* to the item and have not returned, each with its position in Push.
NewAsynchronousTemporalQueueItem ==
    [queue |-> <<>>, close |-> FALSE, wg |-> 0, pending |-> <<>>]

Registered == {k \in Names : channelMap[k] # NoItem}

\* sync.Map.Range visits the entries in an unspecified order.
Orders ==
    {s \in [1..Cardinality(Registered) -> Registered] :
        \A i, j \in DOMAIN s : i # j => s[i] # s[j]}

NoResults == [k \in Names |-> NoValue]
ResultLen(results) == Cardinality({k \in Names : results[k] # NoValue})
NoData == [values |-> NoResults, NTP |-> 0, ok |-> FALSE]

\* ------------------------------------------------------------ merge engine
\* clear(keys) on a slice zeroes its elements and keeps its length.
Clear(keys) == [i \in 1..Len(keys) |-> ""]

\* ScanStep with the comparison turned round: the later head wins.
ScanStep_latest(st, key) ==
    LET item == items[key][channelMap[key]] IN
    IF ~item.close /\ ~QEmpty(item.queue)
    THEN LET h == QHead(item.queue)
             st1 == IF st.curNTP = h.ts
                    THEN [st EXCEPT !.keys = Append(@, key)]
                    ELSE st
         IN IF st1.curNTP < h.ts
            THEN [keys |-> Append([i \in 1..Len(st1.keys) |-> ""], key), curNTP |-> h.ts]
            ELSE st1
    ELSE st

\* The body of the Range callback of pop/head for one registry entry;
\* st = [keys, curNTP].
ScanStep(st, key) ==
    LET item == items[key][channelMap[key]] IN
    IF ~item.close /\ ~QEmpty(item.queue)
    THEN LET h == QHead(item.queue)
             st1 == IF st.curNTP = h.ts
                    THEN [st EXCEPT !.keys = Append(@, key)]
                    ELSE st
         IN IF st1.curNTP > h.ts
            THEN [keys |-> Append(Clear(st1.keys), key), curNTP |-> h.ts]
            ELSE st1
    ELSE st

RECURSIVE Scan(_, _)
Scan(order, st) ==
    IF order = <<>> THEN st ELSE Scan(Tail(order), ScanStep(st, Head(order)))

\* One iteration of pop's loop over keys; acc = [items, results].
PopKey(acc, key) ==
    IF channelMap[key] # NoItem
    THEN LET id == channelMap[key]
             item == acc.items[key][id]
         IN IF ~item.close /\ ~QEmpty(item.queue)
            THEN [items |-> [acc.items EXCEPT ![key][id].queue = QPop(@)],
                  results |-> [acc.results EXCEPT ![key] = QHead(item.queue).value]]
            ELSE acc
    ELSE acc

RECURSIVE PopKeys(_, _)
PopKeys(keys, acc) ==
    IF keys = <<>> THEN acc ELSE PopKeys(Tail(keys), PopKey(acc, Head(keys)))

\* HeadKey taking the item out of the buffer, as PopKey does.
HeadKey_destructive(acc, key) == PopKey(acc, key)

\* One iteration of head's loop over keys.
HeadKey(acc, key) ==
    IF channelMap[key] # NoItem
    THEN LET item == acc.items[key][channelMap[key]]
         IN IF ~item.close /\ ~QEmpty(item.queue)
            THEN [acc EXCEPT !.results[key] = QHead(item.queue).value]
            ELSE acc
    ELSE acc

RECURSIVE HeadKeys(_, _)
HeadKeys(keys, acc) ==
    IF keys = <<>> THEN acc ELSE HeadKeys(Tail(keys), HeadKey(acc, Head(keys)))

\* Outcome reporting the wall clock in place of the timestamp found.
Outcome_clock(acc, ntp) ==
    IF ResultLen(acc.results) = 0
    THEN [items |-> acc.items, values |-> NoResults, NTP |-> 0, ok |-> FALSE]
    ELSE [items |-> acc.items, values |-> acc.results, NTP |-> now, ok |-> TRUE]

\* The return statements of pop/head: nothing collected gives (nil, 0, false).
Outcome(acc, ntp) ==
    IF ResultLen(acc.results) = 0
    THEN [items |-> acc.items, values |-> NoResults, NTP |-> 0, ok |-> FALSE]
    ELSE [items |-> acc.items, values |-> acc.results, NTP |-> ntp, ok |-> TRUE]

\* q.pop() with the registry scanned in `order` at wall-clock time t.
pop(order, t) ==
    LET st == Scan(order, [keys |-> <<>>, curNTP |-> t])
    IN Outcome(PopKeys(st.keys, [items |-> items, results |-> NoResults]), st.curNTP)

\* q.head()
head(order, t) ==
    LET st == Scan(order, [keys |-> <<>>, curNTP |-> t])
    IN Outcome(HeadKeys(st.keys, [items |-> items, results |-> NoResults]), st.curNTP)

\* EmptyScan without the test of the closing flag.
RECURSIVE EmptyScan_ignoresClose(_, _)
EmptyScan_ignoresClose(order, flag) ==
    IF order = <<>> THEN flag
    ELSE LET item == items[Head(order)][channelMap[Head(order)]]
         IN EmptyScan_ignoresClose(Tail(order),
                                   IF ~QEmpty(item.queue) THEN FALSE ELSE flag)

\* The Range loop of Empty() in non-sampling mode.
RECURSIVE EmptyScan(_, _)
EmptyScan(order, flag) ==
    IF order = <<>> THEN flag
    ELSE LET item == items[Head(order)][channelMap[Head(order)]]
         IN EmptyScan(Tail(order),
                      IF ~item.close /\ ~QEmpty(item.queue) THEN FALSE ELSE flag)

\* ------------------------------------------------------------------ state
ItemIds == Names \X Slots

RECURSIVE SumTasks(_, _)
SumTasks(r, ids) ==
    IF ids = {} THEN 0
    ELSE LET id == CHOOSE i \in ids : TRUE
         IN r[id[1]][id[2]] + SumTasks(r, ids \ {id})

LiveTasks == SumTasks(rm, ItemIds)

\* An item is live while the registry, a removal goroutine or a Push in
\* progress refers to it.
Live(cm, r, its, key, slot) ==
    cm[key] = slot \/ r[key][slot] > 0 \/ its[key][slot].pending # <<>>

\* The slot of the object a call of NewAsynchronousTemporalQueueItem yields.
FreshSlot(key) == CHOOSE n \in Slots :
    /\ ~Live(channelMap, rm, items, key, n)
    /\ \A j \in Slots : ~Live(channelMap, rm, items, key, j) => n <= j

\* Objects nothing refers to any more are garbage: they are dropped.
Collect(cm, r, its) ==
    [key \in Names |-> [n \in Slots |->
        IF Live(cm, r, its, key, n) THEN its[key][n] ELSE NewAsynchronousTemporalQueueItem]]

\* The buffer and the closing flag of the item registered under k.
Buffer(k) == items[k][channelMap[k]].queue
Closing(k) == items[k][channelMap[k]].close
\* the channels pop looks at: registered, not closing, not empty
OpenNonEmpty == {k \in Names : channelMap[k] # NoItem /\ ~Closing(k) /\ Buffer(k) # <<>>}
HeadTs(k) == Buffer(k)[1].ts
MinTs == CHOOSE t \in {HeadTs(k) : k \in OpenNonEmpty} : \A k \in OpenNonEmpty : t <= HeadTs(k)
Ties == {k \in OpenNonEmpty : HeadTs(k) = MinTs}

Init ==
    /\ channelMap = [k \in Names |-> NoItem]
    /\ items = [k \in Names |-> [n \in Slots |-> NewAsynchronousTemporalQueueItem]]
    /\ rm = [k \in Names |-> [n \in Slots |-> 0]]
    /\ sampleMode = FALSE
    /\ sampleWeights = <<>>
    /\ durationWindow = 0
    /\ curNTP = 0
    /\ item_buffer = <<>>
    /\ out = <<>>
    /\ samplers = <<>>
    /\ fault = FALSE
    /\ now = Now0
    /\ pushed = 0
    /\ op = "New"
    /\ arg = ""
    /\ ret = NoData
    /\ popRun = <<>>
    /\ closedNames = {}
    /\ afterEmpty = FALSE
    /\ popping = <<>>
    /\ creating = [k \in Names |-> 0]

\* ------------------------------------------------------ registry operations
\* CreateChannel storing a new item whether or not the name is registered.
CreateChannel_replaces(key) ==
    /\ op' = "CreateChannel"
    /\ arg' = key
    /\ ret' = NoData
    /\ popRun' = <<>>
    /\ afterEmpty' = FALSE
    /\ items' = [items EXCEPT ![key][FreshSlot(key)] = NewAsynchronousTemporalQueueItem]
    /\ channelMap' = [channelMap EXCEPT ![key] = FreshSlot(key)]
    /\ closedNames' = closedNames \ {key}
    /\ UNCHANGED <<rm, sampVars, now, pushed, popping, creating>>

CreateChannel(key) ==
    /\ op' = "CreateChannel"
    /\ arg' = key
    /\ ret' = NoData
    /\ popRun' = <<>>
    /\ afterEmpty' = FALSE
    /\ IF channelMap[key] = NoItem
       THEN /\ items' = [items EXCEPT ![key][FreshSlot(key)] = NewAsynchronousTemporalQueueItem]
            /\ channelMap' = [channelMap EXCEPT ![key] = FreshSlot(key)]
            /\ closedNames' = closedNames \ {key}
       ELSE UNCHANGED <<channelMap, items, closedNames>>
    /\ UNCHANGED <<rm, sampVars, now, pushed, popping, creating>>

\* CreateChannel run statement by statement. Line 111: the Load; a call that
\* finds an entry returns.
CreateLoad(key) ==
    /\ op' = "CreateStep"
    /\ arg' = key
    /\ ret' = NoData
    /\ popRun' = <<>>
    /\ afterEmpty' = FALSE
    /\ creating' = IF channelMap[key] = NoItem
                   THEN [creating EXCEPT ![key] = @ + 1]
                   ELSE creating
    /\ UNCHANGED <<chanVars, sampVars, now, pushed, closedNames, popping>>

\* Line 112: the Store of a new item, by a call whose Load found no entry.
CreateStore(key) ==
    /\ creating[key] > 0
    /\ op' = "CreateChannel"
    /\ arg' = key
    /\ ret' = NoData
    /\ popRun' = <<>>
    /\ afterEmpty' = FALSE
    /\ creating' = [creating EXCEPT ![key] = @ - 1]
    /\ items' = [items EXCEPT ![key][FreshSlot(key)] = NewAsynchronousTemporalQueueItem]
    /\ channelMap' = [channelMap EXCEPT ![key] = FreshSlot(key)]
    /\ closedNames' = closedNames \ {key}
    /\ UNCHANGED <<rm, sampVars, now, pushed, popping>>

CloseChannel(key) ==
    /\ op' = "CloseChannel"
    /\ arg' = key
    /\ ret' = NoData
    /\ popRun' = <<>>
    /\ afterEmpty' = FALSE
    /\ closedNames' = closedNames \cup {key}
    /\ IF channelMap[key] # NoItem
       THEN /\ items' = [items EXCEPT ![key][channelMap[key]].close = TRUE]
            /\ rm' = [rm EXCEPT ![key][channelMap[key]] = @ + 1]
       ELSE UNCHANGED <<items, rm>>
    /\ UNCHANGED <<channelMap, sampVars, now, pushed, popping, creating>>

\* RemovalTask returning without the Delete.
RemovalTask_keepsEntry(key, slot) ==
    /\ rm[key][slot] > 0
    /\ items[key][slot].wg = 0
    /\ QEmpty(items[key][slot].queue)
    /\ rm' = [rm EXCEPT ![key][slot] = @ - 1]
    /\ items' = Collect(channelMap, rm', items)
    /\ op' = "RemovalTask"
    /\ arg' = key
    /\ ret' = NoData
    /\ UNCHANGED <<channelMap, sampVars, now, pushed, histVars, popping, creating>>

\* One iteration of the loop of the goroutine started by CloseChannel:
\* item._wg.Wait(), then, when item.queue.Empty(), Delete(key) and return.
\* With a buffered item the iteration changes nothing and the loop goes on.
RemovalTask(key, slot) ==
    /\ rm[key][slot] > 0
    /\ items[key][slot].wg = 0
    /\ QEmpty(items[key][slot].queue)
    /\ rm' = [rm EXCEPT ![key][slot] = @ - 1]
    /\ channelMap' = [channelMap EXCEPT ![key] = NoItem]
    /\ items' = Collect(channelMap', rm', items)
    /\ op' = "RemovalTask"
    /\ arg' = key
    /\ ret' = NoData
    /\ UNCHANGED <<sampVars, now, pushed, histVars, popping, creating>>

\* Push without the test of the closing flag.
Push_ignoresClose(key, value, NTP) ==
    /\ pushed' = pushed + 1
    /\ op' = "Push"
    /\ arg' = key
    /\ ret' = NoData
    /\ popRun' = <<>>
    /\ afterEmpty' = FALSE
    /\ IF channelMap[key] # NoItem
       THEN \E q2 \in QPushSet(items[key][channelMap[key]].queue, value, NTP) :
                items' = [items EXCEPT ![key][channelMap[key]].queue = q2]
       ELSE UNCHANGED items
    /\ UNCHANGED <<channelMap, rm, sampVars, now, closedNames, popping, creating>>

Push(key, value, NTP) ==
    /\ pushed' = pushed + 1
    /\ op' = "Push"
    /\ arg' = key
    /\ ret' = NoData
    /\ popRun' = <<>>
    /\ afterEmpty' = FALSE
    /\ IF channelMap[key] # NoItem /\ ~items[key][channelMap[key]].close
       THEN \E q2 \in QPushSet(items[key][channelMap[key]].queue, value, NTP) :
                items' = [items EXCEPT ![key][channelMap[key]].queue = q2]
       ELSE UNCHANGED items
    /\ UNCHANGED <<channelMap, rm, sampVars, now, closedNames, popping, creating>>

\* Push run concurrently with other calls, statement by statement. Lines
\* 159-161: Load, and the test of _close.
PushLoad(key, value, NTP) ==
    /\ pushed' = pushed + 1
    /\ op' = "Push"
    /\ arg' = key
    /\ ret' = NoData
    /\ popRun' = <<>>
    /\ afterEmpty' = FALSE
    /\ IF channelMap[key] # NoItem /\ ~items[key][channelMap[key]].close
       THEN items' = [items EXCEPT ![key][channelMap[key]].pending =
                          Append(@, [v |-> value, ts |-> NTP, pc |-> "Add"])]
       ELSE UNCHANGED items
    /\ UNCHANGED <<channelMap, rm, sampVars, now, closedNames, popping, creating>>

\* Line 162: item._wg.Add(1)
PushAdd(key, slot) ==
    /\ \E i \in DOMAIN items[key][slot].pending :
           /\ items[key][slot].pending[i].pc = "Add"
           /\ items' = [items EXCEPT ![key][slot].wg = @ + 1,
                                     ![key][slot].pending[i].pc = "Push"]
    /\ op' = "PushStep"
    /\ arg' = key
    /\ ret' = NoData
    /\ UNCHANGED <<channelMap, rm, sampVars, now, pushed, histVars, popping, creating>>

\* Line 163: item.queue.Push(value, NTP)
PushStore(key, slot) ==
    /\ \E i \in DOMAIN items[key][slot].pending :
           LET p == items[key][slot].pending[i] IN
           /\ p.pc = "Push"
           /\ \E q2 \in QPushSet(items[key][slot].queue, p.v, p.ts) :
                  items' = [items EXCEPT ![key][slot].queue = q2,
                                         ![key][slot].pending[i].pc = "Done"]
    /\ op' = "PushStep"
    /\ arg' = key
    /\ ret' = NoData
    /\ UNCHANGED <<channelMap, rm, sampVars, now, pushed, histVars, popping, creating>>

\* Line 164: item._wg.Done(), and the return.
PushDone(key, slot) ==
    /\ \E i \in DOMAIN items[key][slot].pending :
           /\ items[key][slot].pending[i].pc = "Done"
           /\ items' = Collect(channelMap, rm,
                  [items EXCEPT ![key][slot].wg = @ - 1,
                                ![key][slot].pending = Without(@, i)])
    /\ op' = "PushStep"
    /\ arg' = key
    /\ ret' = NoData
    /\ UNCHANGED <<channelMap, rm, sampVars, now, pushed, histVars, popping, creating>>

\* --------------------------------------------------------- consumer calls
\* A Pop that takes the latest entry of the sampling output.
Pop_latest ==
    /\ op' = "Pop"
    /\ arg' = ""
    /\ IF sampleMode /\ QHead(out).ok
       THEN /\ ret' = [values |-> out[Len(out)].v, NTP |-> out[Len(out)].ts, ok |-> TRUE]
            /\ out' = SubSeq(out, 1, Len(out) - 1)
            /\ UNCHANGED items
       ELSE \E order \in Orders :
                LET r == pop(order, now) IN
                /\ ret' = [values |-> r.values, NTP |-> r.NTP, ok |-> r.ok]
                /\ items' = r.items
                /\ UNCHANGED out
    /\ popRun' = IF ret'.ok THEN Append(popRun, ret'.NTP) ELSE popRun
    /\ afterEmpty' = (op = "Empty" /\ ~ret.ok)
    /\ UNCHANGED <<channelMap, rm, sampleMode, sampleWeights, durationWindow,
                   curNTP, item_buffer, samplers, fault, now, pushed, closedNames, popping, creating>>

Pop ==
    /\ op' = "Pop"
    /\ arg' = ""
    /\ IF sampleMode /\ QHead(out).ok
       THEN /\ ret' = [values |-> QHead(out).value, NTP |-> QHead(out).ts, ok |-> TRUE]
            /\ out' = QPop(out)
            /\ UNCHANGED items
       ELSE \E order \in Orders :
                LET r == pop(order, now) IN
                /\ ret' = [values |-> r.values, NTP |-> r.NTP, ok |-> r.ok]
                /\ items' = r.items
                /\ UNCHANGED out
    /\ popRun' = IF ret'.ok THEN Append(popRun, ret'.NTP) ELSE popRun
    /\ afterEmpty' = (op = "Empty" /\ ~ret.ok)
    /\ UNCHANGED <<channelMap, rm, sampleMode, sampleWeights, durationWindow,
                   curNTP, item_buffer, samplers, fault, now, pushed, closedNames, popping, creating>>

HeadCall ==
    /\ op' = "Head"
    /\ arg' = ""
    /\ IF sampleMode /\ QHead(out).ok
       THEN /\ ret' = [values |-> QHead(out).value, NTP |-> QHead(out).ts, ok |-> TRUE]
            /\ UNCHANGED items
       ELSE \E order \in Orders :
                LET r == head(order, now) IN
                /\ ret' = [values |-> r.values, NTP |-> r.NTP, ok |-> r.ok]
                /\ items' = r.items
    /\ afterEmpty' = FALSE
    /\ UNCHANGED <<channelMap, rm, sampVars, now, pushed, popRun, closedNames, popping, creating>>

Empty ==
    /\ op' = "Empty"
    /\ arg' = ""
    /\ IF sampleMode
       THEN ret' = [NoData EXCEPT !.ok = QEmpty(out)]
       ELSE \E order \in Orders : ret' = [NoData EXCEPT !.ok = EmptyScan(order, TRUE)]
    /\ afterEmpty' = FALSE
    /\ UNCHANGED <<chanVars, sampVars, now, pushed, popRun, closedNames, popping, creating>>

\* Pop in non-sampling mode run concurrently with other Pops, in steps.
\* pop() lines 187-207: the locals and the Range over the registry. `ties`
\* is a history field: the channels tied at the minimum when the scan ran.
PopScan ==
    /\ ~sampleMode
    /\ \E order \in Orders :
           LET st == Scan(order, [keys |-> <<>>, curNTP |-> now])
           IN popping' = Append(popping,
                  [keys |-> st.keys, results |-> NoResults, curNTP |-> st.curNTP,
                   ties |-> IF OpenNonEmpty # {} /\ MinTs <= now THEN Ties ELSE {}])
    /\ op' = "PopStep"
    /\ arg' = ""
    /\ ret' = NoData
    /\ UNCHANGED <<chanVars, sampVars, now, pushed, histVars, creating>>

\* pop() lines 209-221: one iteration of the loop over keys.
PopStep(i) ==
    /\ popping[i].keys # <<>>
    /\ LET acc == PopKey([items |-> items, results |-> popping[i].results],
                         Head(popping[i].keys))
       IN /\ items' = acc.items
          /\ popping' = [popping EXCEPT ![i].keys = Tail(@),
                                        ![i].results = acc.results]
    /\ op' = "PopStep"
    /\ arg' = ""
    /\ ret' = NoData
    /\ UNCHANGED <<channelMap, rm, sampVars, now, pushed, histVars, creating>>

\* pop() lines 223-227 and Pop's return.
PopReturn(i) ==
    /\ popping[i].keys = <<>>
    /\ LET r == Outcome([items |-> items, results |-> popping[i].results],
                        popping[i].curNTP)
       IN ret' = [values |-> r.values, NTP |-> r.NTP, ok |-> r.ok]
    /\ popping' = Without(popping, i)
    /\ op' = "Pop"
    /\ arg' = ""
    /\ popRun' = <<>>
    /\ afterEmpty' = FALSE
    /\ UNCHANGED <<chanVars, sampVars, now, pushed, closedNames, creating>>

\* ---------------------------------------------------------------- sampling
\* int64(1.0 / float64(sampleRate) * 1000000000), in clock ticks
Window(sampleRate) == Second \div sampleRate

\* The maps a caller may hand to StartSample: weights for some of `keys`.
WeightMaps(keys) == UNION {[S -> Weights] : S \in SUBSET keys}

\* The locals of a taskSample goroutine. They are set anew at the head of
\* every window, so they are kept at these values between two windows.
NewSampler == [pc |-> "outer", max_index |-> 0, max_val |-> 0, approxy_res |-> NoResults]

StartSample(sampleRate, weights) ==
    /\ op' = "StartSample"
    /\ arg' = ""
    /\ ret' = NoData
    /\ popRun' = <<>>
    /\ afterEmpty' = FALSE
    /\ sampleWeights' =
           [k \in DOMAIN sampleWeights \cup
                   {k \in DOMAIN weights : channelMap[k] # NoItem} |->
               IF k \in DOMAIN sampleWeights THEN sampleWeights[k] ELSE weights[k]]
    /\ durationWindow' = Window(sampleRate)
    /\ IF sampleMode
       THEN UNCHANGED <<item_buffer, out, curNTP, sampleMode, samplers>>
       ELSE /\ item_buffer' = <<>>
            /\ out' = <<>>
            /\ curNTP' = now
            /\ sampleMode' = TRUE
            /\ samplers' = Append(samplers, NewSampler)
    /\ UNCHANGED <<chanVars, fault, now, pushed, closedNames, popping, creating>>

CloseSample ==
    /\ op' = "CloseSample"
    /\ arg' = ""
    /\ ret' = NoData
    /\ popRun' = <<>>
    /\ afterEmpty' = FALSE
    /\ sampleMode' = FALSE
    /\ UNCHANGED <<chanVars, sampleWeights, durationWindow, curNTP, item_buffer,
                   out, samplers, fault, now, pushed, closedNames, popping, creating>>


\* taskSample, the head of the outer loop: the test of q.sampleMode, and the
\* statements before the inner loop. clear() keeps the length of a slice.
SampleWindow(i) ==
    /\ samplers[i].pc = "outer"
    /\ IF sampleMode
       THEN /\ item_buffer' = [j \in 1..Len(item_buffer) |-> NoResults]
            /\ samplers' = [samplers EXCEPT ![i] = [NewSampler EXCEPT !.pc = "inner"]]
       ELSE /\ samplers' = Without(samplers, i)
            /\ UNCHANGED item_buffer
    /\ op' = "taskSample"
    /\ arg' = ""
    /\ ret' = NoData
    /\ UNCHANGED <<chanVars, sampleMode, sampleWeights, durationWindow, curNTP,
                   out, fault, now, pushed, histVars, popping, creating>>

SnapshotKeys(values) == {k \in Names : values[k] # NoValue}

RECURSIVE SumWeight(_)
SumWeight(keys) ==
    IF keys = {} THEN 0
    ELSE LET k == CHOOSE x \in keys : TRUE
         IN (IF k \in DOMAIN sampleWeights THEN sampleWeights[k] ELSE 0)
            + SumWeight(keys \ {k})

\* Merge keeping the value a channel already has.
Merge_keepFirst(approxy_res, values) ==
    [k \in Names |-> IF approxy_res[k] # NoValue THEN approxy_res[k] ELSE values[k]]

\* approxy_res[key] = value for every pair of `values`
Merge(approxy_res, values) ==
    [k \in Names |-> IF values[k] # NoValue THEN values[k] ELSE approxy_res[k]]

\* An inner-loop iteration that merges the snapshot which ends the window
\* into the result of that window.
SamplePop_carries(i) ==
    /\ samplers[i].pc = "inner"
    /\ op' = "taskSample"
    /\ arg' = ""
    /\ ret' = NoData
    /\ \E order \in Orders :
        LET r == pop(order, now)
            t == samplers[i]
        IN
        IF r.ok
        THEN /\ items' = r.items
             /\ IF r.NTP - curNTP < durationWindow
                THEN LET sumWeight == SumWeight(SnapshotKeys(r.values))
                         buf == Append(item_buffer, r.values)
                     IN /\ item_buffer' = buf
                        /\ samplers' = [samplers EXCEPT ![i] =
                               [pc |-> "inner",
                                approxy_res |-> Merge(t.approxy_res, r.values),
                                max_val |-> IF sumWeight >= t.max_val
                                            THEN sumWeight ELSE t.max_val,
                                max_index |-> IF sumWeight >= t.max_val
                                              THEN Len(buf) - 1 ELSE t.max_index]]
                        /\ UNCHANGED <<curNTP, out, fault>>
                ELSE /\ curNTP' = r.NTP
                     /\ UNCHANGED item_buffer
                     /\ IF t.max_index >= Len(item_buffer)
                        THEN \* index out of range: the goroutine panics
                             /\ fault' = TRUE
                             /\ samplers' = Without(samplers, i)
                             /\ UNCHANGED out
                        ELSE /\ fault' = FALSE
                             /\ samplers' = [samplers EXCEPT ![i] = NewSampler]
                             /\ IF Len(item_buffer) # 0
                                THEN out' \in QPushSet(out,
                                         Merge(Merge(t.approxy_res, item_buffer[t.max_index + 1]),
                                               r.values),
                                         r.NTP)
                                ELSE UNCHANGED out
        ELSE \* runtime.Gosched()
             UNCHANGED <<items, item_buffer, samplers, curNTP, out, fault>>
    /\ UNCHANGED <<channelMap, rm, sampleMode, sampleWeights, durationWindow,
                   now, pushed, histVars, popping, creating>>

\* taskSample, one iteration of the inner loop: one q.pop() and what is done
\* with its result.
SamplePop(i) ==
    /\ samplers[i].pc = "inner"
    /\ op' = "taskSample"
    /\ arg' = ""
    /\ ret' = NoData
    /\ \E order \in Orders :
        LET r == pop(order, now)
            t == samplers[i]
        IN
        IF r.ok
        THEN /\ items' = r.items
             /\ IF r.NTP - curNTP < durationWindow
                THEN LET sumWeight == SumWeight(SnapshotKeys(r.values))
                         buf == Append(item_buffer, r.values)
                     IN /\ item_buffer' = buf
                        /\ samplers' = [samplers EXCEPT ![i] =
                               [pc |-> "inner",
                                approxy_res |-> Merge(t.approxy_res, r.values),
                                max_val |-> IF sumWeight >= t.max_val
                                            THEN sumWeight ELSE t.max_val,
                                max_index |-> IF sumWeight >= t.max_val
                                              THEN Len(buf) - 1 ELSE t.max_index]]
                        /\ UNCHANGED <<curNTP, out, fault>>
                ELSE /\ curNTP' = r.NTP
                     /\ UNCHANGED item_buffer
                     /\ IF t.max_index >= Len(item_buffer)
                        THEN \* index out of range: the goroutine panics
                             /\ fault' = TRUE
                             /\ samplers' = Without(samplers, i)
                             /\ UNCHANGED out
                        ELSE /\ fault' = FALSE
                             /\ samplers' = [samplers EXCEPT ![i] = NewSampler]
                             /\ IF Len(item_buffer) # 0
                                THEN out' \in QPushSet(out,
                                         Merge(t.approxy_res, item_buffer[t.max_index + 1]),
                                         r.NTP)
                                ELSE UNCHANGED out
        ELSE \* runtime.Gosched()
             UNCHANGED <<items, item_buffer, samplers, curNTP, out, fault>>
    /\ UNCHANGED <<channelMap, rm, sampleMode, sampleWeights, durationWindow,
                   now, pushed, histVars, popping, creating>>

\* ------------------------------------------------------------ environment
\* The wall clock advances.
Tick ==
    /\ now' = now + 1
    /\ op' = "Tick"
    /\ arg' = ""
    /\ ret' = NoData
    /\ UNCHANGED <<chanVars, sampVars, pushed, histVars, popping, creating>>

\* The payload a caller hands to Push: the number of the call, negated when
\* the call is made to a name whose CloseChannel has returned.
Payload(key) == IF key \in closedNames THEN 0 - (pushed + 1) ELSE pushed + 1

\* ---------------------------------------------------------- specifications
\* The registry and the merge engine, sampling never started.
Next ==
    \/ \E key \in Keys : CreateChannel(key)
    \/ \E key \in Keys :
           (channelMap[key] = NoItem \/ LiveTasks < MaxTasks) /\ CloseChannel(key)
    \/ \E key \in Keys, NTP \in Timestamps :
           pushed < MaxPush /\ Push(key, Payload(key), NTP)
    \/ Pop
    \/ HeadCall
    \/ Empty
    \/ \E key \in Names, slot \in Slots : RemovalTask(key, slot)
    \/ now < MaxNow /\ Tick

Spec == Init /\ [][Next]_vars

\* The life of a channel: create, push (at the present time), close, pop and
\* the removal goroutines, which the scheduler keeps running.
CloseNext ==
    \/ \E key \in Keys : CreateChannel(key)
    \/ \E key \in Keys :
           (channelMap[key] = NoItem \/ LiveTasks < MaxTasks) /\ CloseChannel(key)
    \/ \E key \in Keys : pushed < MaxPush /\ Push(key, Payload(key), Now0)
    \/ Pop
    \/ \E key \in Names, slot \in Slots : RemovalTask(key, slot)

FairSpec ==
    /\ Init /\ [][CloseNext]_vars
    /\ \A key \in Names, slot \in Slots : WF_vars(RemovalTask(key, slot))

\* The whole queue, sampling included; a panic ends the process.
SampleNext ==
    /\ ~fault
    /\ \/ \E key \in SampleKeys : CreateChannel(key)
       \/ \E key \in SampleKeys :
              (channelMap[key] = NoItem \/ LiveTasks < MaxTasks) /\ CloseChannel(key)
       \/ \E key \in SampleKeys, NTP \in Timestamps :
              pushed < MaxPush /\ Push(key, Payload(key), NTP)
       \/ Pop
       \/ HeadCall
       \/ Empty
       \/ \E key \in Names, slot \in Slots : RemovalTask(key, slot)
       \/ \E sampleRate \in Rates, weights \in WeightMaps(SampleKeys) :
              /\ sampleMode \/ Len(samplers) < MaxSamplers
              /\ StartSample(sampleRate, weights)
       \/ CloseSample
       \/ \E i \in DOMAIN samplers : SampleWindow(i)
       \/ \E i \in DOMAIN samplers : SamplePop(i)
       \/ now < MaxNow /\ Tick

SampleSpec == Init /\ [][SampleNext]_vars

\* Producers and one consumer on three channels, none of them closed.
WideNext ==
    \/ \E key \in Names : CreateChannel(key)
    \/ \E key \in Names, NTP \in (Now0 - WideTs + 1)..Now0 :
           pushed < WidePush /\ Push(key, Payload(key), NTP)
    \/ Pop

WideSpec == Init /\ [][WideNext]_vars

\* A name closed, more than once, and created again.
RecreateNext ==
    \/ \E key \in SampleKeys : CreateChannel(key)
    \/ \E key \in SampleKeys :
           (channelMap[key] = NoItem \/ LiveTasks < MaxClosers) /\ CloseChannel(key)
    \/ \E key \in SampleKeys : pushed < MaxPush /\ Push(key, Payload(key), Now0)
    \/ Pop
    \/ \E key \in Names, slot \in Slots : RemovalTask(key, slot)

RecreateSpec == Init /\ [][RecreateNext]_vars

\* Push racing with CloseChannel and the removal goroutine.
RECURSIVE SumPending(_, _)
SumPending(its, ids) ==
    IF ids = {} THEN 0
    ELSE LET id == CHOOSE i \in ids : TRUE
         IN Len(its[id[1]][id[2]].pending) + SumPending(its, ids \ {id})

InFlight == SumPending(items, ItemIds)

RaceNext ==
    \/ \E key \in SampleKeys :
           /\ channelMap[key] # NoItem
                  \/ \E n \in Slots : ~Live(channelMap, rm, items, key, n)
           /\ CreateChannel(key)
    \/ \E key \in SampleKeys :
           (channelMap[key] = NoItem \/ LiveTasks < MaxTasks) /\ CloseChannel(key)
    \/ \E key \in SampleKeys :
           /\ pushed < MaxPush /\ InFlight < MaxInFlight
           /\ PushLoad(key, Payload(key), Now0)
    \/ \E key \in SampleKeys, slot \in Slots : PushAdd(key, slot)
    \/ \E key \in SampleKeys, slot \in Slots : PushStore(key, slot)
    \/ \E key \in SampleKeys, slot \in Slots : PushDone(key, slot)
    \/ Pop
    \/ \E key \in Names, slot \in Slots : RemovalTask(key, slot)

RaceSpec == Init /\ [][RaceNext]_vars

\* Pop calls racing with each other, and with nothing else, on channels
\* "a" and "b".
PopRaceNext ==
    \/ \E key \in WinKeys : popping = <<>> /\ CreateChannel(key)
    \/ \E key \in WinKeys, NTP \in Timestamps :
           popping = <<>> /\ pushed < MaxPush /\ Push(key, Payload(key), NTP)
    \/ Len(popping) < MaxPops /\ PopScan
    \/ \E i \in DOMAIN popping : PopStep(i)
    \/ \E i \in DOMAIN popping : PopReturn(i)
    \/ now < MaxNow /\ Tick

PopRaceSpec == Init /\ [][PopRaceNext]_vars

\* Sampling stopped and started again while goroutines are still running.
RestartNext ==
    /\ ~fault
    /\ \/ \E key \in SampleKeys : CreateChannel(key)
       \/ \E key \in SampleKeys, NTP \in Timestamps :
              pushed < MaxPush /\ Push(key, Payload(key), NTP)
       \/ \E sampleRate \in Rates :
              /\ sampleMode \/ Len(samplers) < MaxRestart
              /\ StartSample(sampleRate, <<>>)
       \/ CloseSample
       \/ \E i \in DOMAIN samplers : SampleWindow(i)
       \/ \E i \in DOMAIN samplers : SamplePop(i)
       \/ now < MaxNow /\ Tick

RestartSpec == Init /\ [][RestartNext]_vars

\* The same with the scheduler running the sampling goroutines.
FairRestartSpec ==
    /\ RestartSpec
    /\ WF_vars(\E i \in DOMAIN samplers : SampleWindow(i))
    /\ WF_vars(\E i \in DOMAIN samplers : SamplePop(i))

\* One sampling goroutine working through several windows, items stamped
\* with the time of their Push, weights of either sign, and a consumer
\* that pops when Empty() is false.
WinWeights == (0 - MaxWeight)..MaxWeight
WinWeightMaps == [WinKeys -> WinWeights]

WindowNext ==
    /\ ~fault
    /\ \/ \E key \in WinKeys : CreateChannel(key)
       \/ \E key \in WinKeys : pushed < WinPush /\ Push(key, Payload(key), now)
       \/ \E sampleRate \in Rates, weights \in WinWeightMaps :
              /\ ~sampleMode /\ samplers = <<>>
              /\ StartSample(sampleRate, weights)
       \/ \E i \in DOMAIN samplers : SampleWindow(i)
       \/ \E i \in DOMAIN samplers : SamplePop(i)
       \/ sampleMode /\ ~QEmpty(out) /\ Pop
       \/ now < WinTs /\ Tick

WindowSpec == Init /\ [][WindowNext]_vars

\* One sampling run on one channel, pushes with any timestamps in any order,
\* and one consumer that calls Pop only after Empty() has returned false (no
\* one else takes from q.out, so it is still non-empty at the Pop).
ConsumerNext ==
    /\ ~fault
    /\ \/ \E key \in SampleKeys : CreateChannel(key)
       \/ \E key \in SampleKeys, NTP \in 1..OrdTs :
              pushed < OrdPush /\ Push(key, Payload(key), NTP)
       \/ \E sampleRate \in Rates :
              /\ ~sampleMode /\ samplers = <<>>
              /\ StartSample(sampleRate, <<>>)
       \/ \E i \in DOMAIN samplers : SampleWindow(i)
       \/ \E i \in DOMAIN samplers : SamplePop(i)
       \/ sampleMode /\ ~QEmpty(out) /\ Pop
       \/ now < OrdTs /\ Tick

ConsumerSpec == Init /\ [][ConsumerNext]_vars

\* Concurrent CreateChannel calls, each a Load and then a Store, with Push,
\* Pop, CloseChannel and the removal goroutines.
CreateRaceNext ==
    \/ \E key \in SampleKeys :
           creating[key] < MaxCreators /\ CreateLoad(key)
    \/ \E key \in SampleKeys : CreateStore(key)
    \/ \E key \in SampleKeys, NTP \in Timestamps :
           pushed < MaxPush /\ Push(key, Payload(key), NTP)
    \/ Pop
    \/ \E key \in SampleKeys :
           /\ creating[key] = 0
           /\ channelMap[key] = NoItem \/ LiveTasks < MaxTasks
           /\ CloseChannel(key)
    \/ \E key \in Names, slot \in Slots : RemovalTask(key, slot)

CreateRaceSpec == Init /\ [][CreateRaceNext]_vars

\* ------------------------------------------------------------------ claims
\* no sampling goroutine and sampling not active
NonSampling == ~sampleMode /\ samplers = <<>>
NonDecreasing(seq) == \A i \in 1..(Len(seq) - 1) : seq[i] <= seq[i + 1]

\* C1: in non-sampling mode the timestamps returned by successive successful
\* Pops, with no push, create or close between them, never decrease.
C1_PopTimestampsNonDecreasing == NonSampling => NonDecreasing(popRun)

\* Two Pops in a row returned timestamps 1 and 2 from one channel, the
\* second one the payload of the first Push: pushed late-first, popped in
\* timestamp order.
C1_Witness ==
    /\ op = "Pop" /\ ret.ok /\ NonSampling
    /\ popRun = <<1, 2>>
    /\ ret.values["a"] = 1 /\ ret.values[""] = NoValue

\* C2: a Pop in non-sampling mode returns the smallest head timestamp T
\* (when the clock has reached it), a snapshot of exactly the channels whose
\* head is at T with their head payloads, and removes exactly those heads; on
\* empty buffers it returns ok=false. Stated for every channel name and
\* every scan order.
C2_PopReturnsExactlyTheTies ==
    [][(op' = "Pop" /\ NonSampling) =>
        /\ (OpenNonEmpty # {} /\ MinTs <= now) =>
            /\ ret'.ok
            /\ ret'.NTP = MinTs
            /\ \A k \in Names : ret'.values[k] =
                   IF k \in Ties THEN Buffer(k)[1].v ELSE NoValue
            /\ \A k \in Names, n \in Slots : items'[k][n] =
                   IF k \in Ties /\ n = channelMap[k]
                   THEN [items[k][n] EXCEPT !.queue = Tail(@)]
                   ELSE items[k][n]
        /\ OpenNonEmpty = {} => ~ret'.ok]_vars

\* C3: the items buffered in a channel when CloseChannel is called stay
\* retrievable by Pop. In the form a finite run refutes: a Pop that reports
\* no data (non-sampling mode) leaves no item behind, in a closing channel
\* either, whose timestamp the clock has reached.
C3_ClosingChannelDrainedByPop ==
    (op = "Pop" /\ ~ret.ok /\ NonSampling) =>
        \A k \in Names : channelMap[k] # NoItem =>
            \A i \in 1..Len(Buffer(k)) : Buffer(k)[i].ts > now

\* C4: a payload pushed to c after CloseChannel(c) returned and before c is
\* created again (such payloads are the negative ones) is in no buffer and
\* in no Pop or Head result.
C4_PushAfterCloseDropped ==
    /\ \A k \in Names, n \in Slots :
           \A i \in 1..Len(items[k][n].queue) : items[k][n].queue[i].v > 0
    /\ \A k \in Names : ret.values[k] >= 0

\* A Push was just made to a closed name whose channel is still registered
\* and holds an item.
C4_Witness ==
    /\ op = "Push" /\ arg \in closedNames
    /\ channelMap[arg] # NoItem /\ Closing(arg) /\ Buffer(arg) # <<>>

\* C5: Empty() returns true exactly when the sampling output buffer is empty
\* (sampling active) or no non-closing channel holds an item (otherwise).
C5_EmptyIff ==
    op = "Empty" =>
        (ret.ok <=>
            IF sampleMode THEN Len(out) = 0
            ELSE \A k \in Names :
                     (channelMap[k] # NoItem /\ ~Closing(k)) => Buffer(k) = <<>>)

\* Empty() just returned false in sampling mode, for a window result in the
\* output buffer, while no channel holds an item.
C5_Witness ==
    /\ op = "Empty" /\ ~ret.ok /\ sampleMode /\ out # <<>>
    /\ OpenNonEmpty = {}

C7_NoOpCalls ==
    [][/\ (op' = "Push" /\ (channelMap[arg'] = NoItem \/ Closing(arg'))) =>
              (UNCHANGED <<channelMap, items, rm>> /\ ~fault')
       /\ (op' = "CloseChannel" /\ channelMap[arg'] = NoItem) =>
              (UNCHANGED <<channelMap, items, rm>> /\ ~fault')
       /\ (op' = "CreateChannel" /\ channelMap[arg'] # NoItem) =>
              (UNCHANGED <<channelMap, items, rm>> /\ ~fault')]_vars

\* CreateChannel was just called on a name whose channel holds an item.
C7_Witness ==
    /\ op = "CreateChannel" /\ channelMap[arg] # NoItem /\ Buffer(arg) # <<>>

\* C8: a closing channel with an empty buffer is eventually taken out of the
\* registry by its removal goroutine; a CreateChannel on an unregistered
\* name registers a new item, not closing and empty; and a Push to a
\* registered, non-closing channel adds its payload to the buffer.
C8_EmptyClosedChannelRemoved ==
    /\ \A k \in Names, n \in Slots :
           (channelMap[k] = n /\ items[k][n].close /\ items[k][n].queue = <<>>)
               ~> (channelMap[k] # n)
    /\ [][(op' = "CreateChannel" /\ channelMap[arg'] = NoItem) =>
              /\ channelMap'[arg'] # NoItem
              /\ items'[arg'][channelMap'[arg']] = NewAsynchronousTemporalQueueItem]_vars
    /\ [][(op' = "Push" /\ channelMap[arg'] # NoItem /\ ~Closing(arg')) =>
              Len(items'[arg'][channelMap[arg']].queue) = Len(Buffer(arg')) + 1]_vars

\* The removal goroutine of a closed name just took it out of the registry.
C8_Witness ==
    /\ op = "RemovalTask" /\ arg \in closedNames /\ channelMap[arg] = NoItem

\* C9: a Head call changes no channel buffer, no closing flag, not the set
\* of registered channels and not the sampling output buffer.
C9_HeadNonDestructive ==
    [][op' = "Head" => UNCHANGED <<channelMap, items, out>>]_vars

\* Head just returned a window result of the sampling output buffer.
C9_Witness ==
    /\ op = "Head" /\ ret.ok /\ sampleMode /\ out # <<>>

\* C10: Pop leaves the registry and the closing flags alone, and in
\* non-sampling mode it takes exactly one item from each channel named in
\* the snapshot it returns and none from any other.
C10_PopFrame ==
    [][op' = "Pop" =>
        /\ channelMap' = channelMap
        /\ \A k \in Names, n \in Slots : items'[k][n].close = items[k][n].close
        /\ NonSampling =>
               \A k \in Names, n \in Slots : items'[k][n].queue =
                   IF n = channelMap[k] /\ ret'.values[k] # NoValue
                   THEN Tail(items[k][n].queue)
                   ELSE items[k][n].queue]_vars

\* C11: no sequence of public calls makes the sampling goroutine fault: when
\* it handles an out-of-window snapshot, max_index is inside item_buffer.
C11_SamplerNeverFaults == ~fault

\* C12: at most one sampling goroutine is running at any time, whatever
\* the sequence of StartSample and CloseSample calls.
C12_AtMostOneSampler == Len(samplers) <= 1

\* C13: every window result in the sampling output channel, and so every
\* snapshot a consumer pops in sampling mode, names at least one channel.
C13_WindowResultsNonEmpty ==
    /\ \A i \in 1..Len(out) : ResultLen(out[i].v) >= 1
    /\ (op = "Pop" /\ ret.ok) => ResultLen(ret.values) >= 1

\* C14: a name leaves the registry only when the item stored under it at
\* that moment is closing, has no operation in flight and has an empty buffer.
C14_RemovedOnlyWhenDrained ==
    [][\A k \in Names :
          (channelMap[k] # NoItem /\ channelMap'[k] = NoItem) =>
              /\ Closing(k)
              /\ items[k][channelMap[k]].wg = 0
              /\ Buffer(k) = <<>>]_vars

\* C15: an item is appended to a buffer only while its channel item is in
\* the registry, and to a closing item only while a removal goroutine is
\* still there to wait for the push.
C15_NoAppendAfterRemoval ==
    [][\A k \in Names, n \in Slots :
          Len(items'[k][n].queue) > Len(items[k][n].queue) =>
              /\ channelMap[k] = n
              /\ items[k][n].close => rm[k][n] > 0]_vars

\* C16: with Pop calls running concurrently, a Pop that has gone through
\* its keys and took anything holds the heads of all the channels that were
\* tied at the minimum when it scanned, and of no other (no split); and
\* every head a Pop removes has the timestamp that Pop reports (no mix).
C16_ConcurrentPopsAtomic ==
    /\ [](\A i \in DOMAIN popping :
             (popping[i].keys = <<>> /\ ResultLen(popping[i].results) > 0) =>
                 \A k \in Names :
                     popping[i].results[k] # NoValue <=> k \in popping[i].ties)
    /\ [][\A k \in Names, n \in Slots :
              Len(items'[k][n].queue) < Len(items[k][n].queue) =>
                  \E i \in DOMAIN popping :
                      /\ popping[i].keys # <<>> /\ Head(popping[i].keys) = k
                      /\ items[k][n].queue[1].ts = popping[i].curNTP]_vars

\* C17: in non-sampling mode, when Head returned ok with snapshot S and
\* timestamp T, the Pop called next, and a Head called next, return ok with
\* the same S and T.
C17_HeadThenPopAgree ==
    [][(op = "Head" /\ ret.ok /\ NonSampling /\ op' \in {"Pop", "Head"}) =>
          /\ ret'.ok
          /\ ret'.values = ret.values
          /\ ret'.NTP = ret.NTP]_vars

\* C18: once CloseSample has cleared the flag, the sampling goroutines
\* eventually end, unless StartSample sets the flag again.
C18_SamplerEndsAfterCloseSample ==
    (~sampleMode /\ samplers # <<>>) ~> (samplers = <<>> \/ sampleMode)

\* the snapshots buffered in the current window: clear() left the older
\* entries of item_buffer empty
InWindow == {j \in 1..Len(item_buffer) : item_buffer[j] # NoResults}
Score(values) == SumWeight(SnapshotKeys(values))
\* a taskSample step that pushes a window result
Publishes == op' = "taskSample" /\ Len(out') > Len(out) /\ Len(samplers) = 1

\* C19: when a window with buffered snapshots is published, the entry at
\* max_index, merged last, is one of them, none of them has a higher
\* score, and none with the same score was buffered after it.
C19_AnchorHasHighestScore ==
    [][(Publishes /\ InWindow # {}) =>
          LET anchor == samplers[1].max_index + 1 IN
          /\ anchor \in InWindow
          /\ \A j \in InWindow :
                 /\ Score(item_buffer[j]) <= Score(item_buffer[anchor])
                 /\ Score(item_buffer[j]) = Score(item_buffer[anchor]) => j <= anchor]_vars

\* the value of channel k in the last in-window snapshot that holds it
LastInWindow(k) ==
    LET js == {j \in InWindow : item_buffer[j][k] # NoValue}
    IN IF js = {} THEN NoValue
       ELSE item_buffer[CHOOSE j \in js : \A i \in js : i <= j][k]

Stored(its) ==
    {e \in UNION {{its[k][s].queue[j] : j \in 1..Len(its[k][s].queue)} :
                     <<k, s>> \in ItemIds} : TRUE}

PayloadsIn(values) == {values[k] : k \in Names} \ {NoValue}

\* The payloads from which the sampling task builds its results.
SamplingPayloads(o, buf, tasks) ==
    UNION ({PayloadsIn(o[j].v) : j \in 1..Len(o)}
           \cup {PayloadsIn(buf[j]) : j \in 1..Len(buf)}
           \cup {PayloadsIn(tasks[j].approxy_res) : j \in 1..Len(tasks)})

\* A step of the sampling task whose q.pop() returned a snapshot that was not
\* appended to item_buffer: the snapshot is outside the window.
BoundaryStep ==
    /\ op' = "taskSample"
    /\ Stored(items') # Stored(items)
    /\ Len(item_buffer') = Len(item_buffer)

\* C21: the snapshot that crosses the window boundary only sets curNTP to its
\* timestamp: after the step its payloads are in no published result, not in
\* item_buffer, not in the locals of a sampling task and in no channel buffer.
C21_BoundarySnapshotDropped ==
    [][BoundaryStep =>
          LET gone == Stored(items) \ Stored(items')
          IN /\ \A e \in gone : curNTP' = e.ts
             /\ {e.v : e \in gone}
                  \cap (SamplingPayloads(out', item_buffer', samplers')
                        \cup {e.v : e \in Stored(items')}) = {}]_vars

\* Two pushes were accepted, a result was published with the timestamp of the
\* snapshot that ended the window, and one payload is left in the queue.
C21_Witness ==
    /\ op = "taskSample"
    /\ pushed = 2
    /\ Len(out) = 1
    /\ out[1].ts = curNTP
    /\ Len(item_buffer) = 1
    /\ Stored(items) = {}
    /\ Cardinality(SamplingPayloads(out, item_buffer, samplers)) = 1

\* ------------------------------------------------------------------- C22
\* C22: after StartSample(sampleRate, weights) the sampling state reflects the
\* call: every registered channel present in weights has the weight given,
\* the call configures no weight for a name that is not registered, the window
\* is Window(sampleRate), and a call made while sampling is active starts no
\* task and resets neither the output buffer nor curNTP.
C22_StartSampleReflectsCall ==
    [][\A sampleRate \in Rates, weights \in WeightMaps(SampleKeys) :
          StartSample(sampleRate, weights) =>
              /\ \A c \in DOMAIN weights :
                     channelMap[c] # NoItem =>
                         /\ c \in DOMAIN sampleWeights'
                         /\ sampleWeights'[c] = weights[c]
              /\ \A c \in DOMAIN sampleWeights' :
                     c \in DOMAIN sampleWeights \/ channelMap[c] # NoItem
              /\ durationWindow' = Window(sampleRate)
              /\ sampleMode =>
                     /\ samplers' = samplers
                     /\ out' = out
                     /\ curNTP' = curNTP]_vars

\* ------------------------------------------------------------------- C23
\* C23: while sampling is active Pop and Head take their result from the
\* sampling output only: with a non-empty output buffer they return its
\* earliest entry (Pop removes it, Head leaves it), with an empty one they
\* return ok = false, and in both cases the channel buffers are left alone.
C23_SamplingPopFromOutputOnly ==
    [][(sampleMode /\ op' \in {"Pop", "Head"}) =>
          /\ items' = items
          /\ IF QEmpty(out)
             THEN ~ret'.ok /\ out' = out
             ELSE /\ ret' = [values |-> out[1].v, NTP |-> out[1].ts, ok |-> TRUE]
                  /\ \A j \in 1..Len(out) : out[1].ts <= out[j].ts
                  /\ out' = IF op' = "Pop" THEN Tail(out) ELSE out]_vars

\* ------------------------------------------------------------------- C24
\* C24: the timestamps of the window snapshots that the consumer has received
\* are strictly increasing, each at least one window duration after the one
\* before it.
C24_WindowsInOrder ==
    \A j \in 2..Len(popRun) :
        /\ popRun[j] > popRun[j - 1]
        /\ popRun[j] - popRun[j - 1] >= durationWindow

\* The consumer has received two window snapshots while an item pushed with
\* an earlier timestamp than the last of them is in a channel buffer.
C24_Witness ==
    /\ sampleMode
    /\ op = "Pop"
    /\ Len(popRun) = 2
    /\ \E e \in Stored(items) : e.ts < popRun[2]

\* ------------------------------------------------------------------- C25
\* C25: every item in the snapshot returned by a successful Pop or Head in
\* non-sampling mode was pushed with the timestamp that the call returns:
\* the pair of the item and that timestamp was in a channel buffer.
C25_ReturnedItemsCarryReturnedTimestamp ==
    [][(NonSampling /\ op' \in {"Pop", "Head"} /\ ret'.ok) =>
          \A k \in SnapshotKeys(ret'.values) :
              [v |-> ret'.values[k], ts |-> ret'.NTP] \in Stored(items)]_vars

\* ------------------------------------------------------------------- C26
\* C26: a registered channel's item is never replaced by another item (the
\* entry changes only by being removed), and no CreateChannel step takes a
\* registered channel's buffered items out of the registry.
C26_OneItemPerChannel ==
    [][\A c \in Names :
          channelMap[c] # NoItem =>
              /\ channelMap'[c] \in {channelMap[c], NoItem}
              /\ op' = "CreateChannel" =>
                     /\ channelMap'[c] # NoItem
                     /\ items'[c][channelMap'[c]].queue = Buffer(c)]_vars

\* ------------------------------------------------------------------- C27
\* C27: in non-sampling mode with no channel closed, a Pop takes out of the
\* channel buffers exactly the items of the snapshot it returns, and no other
\* step takes an item out of a buffer: an accepted item is in its buffer
\* until one Pop returns it.
C27_ItemsConserved ==
    [][NonSampling =>
          IF op' = "Pop"
          THEN /\ Stored(items') \subseteq Stored(items)
               /\ {e.v : e \in Stored(items) \ Stored(items')}
                      = PayloadsIn(ret'.values)
          ELSE Stored(items) \subseteq Stored(items')]_vars

====
